---------------------------- MODULE Spec2Model ----------------------------
(***************************************************************************)
(* Model of analyze.py (WhatsAppAnalyzer): the transcript parser           *)
(* (parse_chat), the sender registry (senders_by_id / senders_by_name),    *)
(* the statistics accumulation loop and the console report.                *)
(*                                                                         *)
(* A text is a sequence of characters (one-character strings).  An emoji   *)
(* code point is written as a token such as "E1", which counts as         *)
(* one character of the text, as len() counts it.                          *)
(***************************************************************************)
EXTENDS Integers, Sequences, FiniteSets, TLC

(***************************************************************************)
(* Bounds of the model.                                                    *)
(***************************************************************************)
MaxLines == 4      \* lines read in one run, over all transcripts
MaxFiles == 2      \* transcripts given on the command line

(***************************************************************************)
(* Characters.                                                             *)
(***************************************************************************)
\* the digits of the character classes [0-9] that strptime spells out
AsciiDigits == {"0", "1", "2", "3", "4", "5", "6", "7", "8", "9"}

\* the decimal digits of the Unicode character database (category Nd), ten
\* to a row in the order of their values; a character outside ASCII is
\* written as the token of its code point
DecimalDigits == <<
  <<"0", "1", "2", "3", "4", "5", "6", "7", "8", "9">>,
  <<"U+0660", "U+0661", "U+0662", "U+0663", "U+0664",
    "U+0665", "U+0666", "U+0667", "U+0668", "U+0669">>,
  <<"U+06F0", "U+06F1", "U+06F2", "U+06F3", "U+06F4",
    "U+06F5", "U+06F6", "U+06F7", "U+06F8", "U+06F9">>,
  <<"U+07C0", "U+07C1", "U+07C2", "U+07C3", "U+07C4",
    "U+07C5", "U+07C6", "U+07C7", "U+07C8", "U+07C9">>,
  <<"U+0966", "U+0967", "U+0968", "U+0969", "U+096A",
    "U+096B", "U+096C", "U+096D", "U+096E", "U+096F">>,
  <<"U+09E6", "U+09E7", "U+09E8", "U+09E9", "U+09EA",
    "U+09EB", "U+09EC", "U+09ED", "U+09EE", "U+09EF">>,
  <<"U+0A66", "U+0A67", "U+0A68", "U+0A69", "U+0A6A",
    "U+0A6B", "U+0A6C", "U+0A6D", "U+0A6E", "U+0A6F">>,
  <<"U+0AE6", "U+0AE7", "U+0AE8", "U+0AE9", "U+0AEA",
    "U+0AEB", "U+0AEC", "U+0AED", "U+0AEE", "U+0AEF">>,
  <<"U+0B66", "U+0B67", "U+0B68", "U+0B69", "U+0B6A",
    "U+0B6B", "U+0B6C", "U+0B6D", "U+0B6E", "U+0B6F">>,
  <<"U+0BE6", "U+0BE7", "U+0BE8", "U+0BE9", "U+0BEA",
    "U+0BEB", "U+0BEC", "U+0BED", "U+0BEE", "U+0BEF">>,
  <<"U+0C66", "U+0C67", "U+0C68", "U+0C69", "U+0C6A",
    "U+0C6B", "U+0C6C", "U+0C6D", "U+0C6E", "U+0C6F">>,
  <<"U+0CE6", "U+0CE7", "U+0CE8", "U+0CE9", "U+0CEA",
    "U+0CEB", "U+0CEC", "U+0CED", "U+0CEE", "U+0CEF">>,
  <<"U+0D66", "U+0D67", "U+0D68", "U+0D69", "U+0D6A",
    "U+0D6B", "U+0D6C", "U+0D6D", "U+0D6E", "U+0D6F">>,
  <<"U+0DE6", "U+0DE7", "U+0DE8", "U+0DE9", "U+0DEA",
    "U+0DEB", "U+0DEC", "U+0DED", "U+0DEE", "U+0DEF">>,
  <<"U+0E50", "U+0E51", "U+0E52", "U+0E53", "U+0E54",
    "U+0E55", "U+0E56", "U+0E57", "U+0E58", "U+0E59">>,
  <<"U+0ED0", "U+0ED1", "U+0ED2", "U+0ED3", "U+0ED4",
    "U+0ED5", "U+0ED6", "U+0ED7", "U+0ED8", "U+0ED9">>,
  <<"U+0F20", "U+0F21", "U+0F22", "U+0F23", "U+0F24",
    "U+0F25", "U+0F26", "U+0F27", "U+0F28", "U+0F29">>,
  <<"U+1040", "U+1041", "U+1042", "U+1043", "U+1044",
    "U+1045", "U+1046", "U+1047", "U+1048", "U+1049">>,
  <<"U+1090", "U+1091", "U+1092", "U+1093", "U+1094",
    "U+1095", "U+1096", "U+1097", "U+1098", "U+1099">>,
  <<"U+17E0", "U+17E1", "U+17E2", "U+17E3", "U+17E4",
    "U+17E5", "U+17E6", "U+17E7", "U+17E8", "U+17E9">>,
  <<"U+1810", "U+1811", "U+1812", "U+1813", "U+1814",
    "U+1815", "U+1816", "U+1817", "U+1818", "U+1819">>,
  <<"U+1946", "U+1947", "U+1948", "U+1949", "U+194A",
    "U+194B", "U+194C", "U+194D", "U+194E", "U+194F">>,
  <<"U+19D0", "U+19D1", "U+19D2", "U+19D3", "U+19D4",
    "U+19D5", "U+19D6", "U+19D7", "U+19D8", "U+19D9">>,
  <<"U+1A80", "U+1A81", "U+1A82", "U+1A83", "U+1A84",
    "U+1A85", "U+1A86", "U+1A87", "U+1A88", "U+1A89">>,
  <<"U+1A90", "U+1A91", "U+1A92", "U+1A93", "U+1A94",
    "U+1A95", "U+1A96", "U+1A97", "U+1A98", "U+1A99">>,
  <<"U+1B50", "U+1B51", "U+1B52", "U+1B53", "U+1B54",
    "U+1B55", "U+1B56", "U+1B57", "U+1B58", "U+1B59">>,
  <<"U+1BB0", "U+1BB1", "U+1BB2", "U+1BB3", "U+1BB4",
    "U+1BB5", "U+1BB6", "U+1BB7", "U+1BB8", "U+1BB9">>,
  <<"U+1C40", "U+1C41", "U+1C42", "U+1C43", "U+1C44",
    "U+1C45", "U+1C46", "U+1C47", "U+1C48", "U+1C49">>,
  <<"U+1C50", "U+1C51", "U+1C52", "U+1C53", "U+1C54",
    "U+1C55", "U+1C56", "U+1C57", "U+1C58", "U+1C59">>,
  <<"U+A620", "U+A621", "U+A622", "U+A623", "U+A624",
    "U+A625", "U+A626", "U+A627", "U+A628", "U+A629">>,
  <<"U+A8D0", "U+A8D1", "U+A8D2", "U+A8D3", "U+A8D4",
    "U+A8D5", "U+A8D6", "U+A8D7", "U+A8D8", "U+A8D9">>,
  <<"U+A900", "U+A901", "U+A902", "U+A903", "U+A904",
    "U+A905", "U+A906", "U+A907", "U+A908", "U+A909">>,
  <<"U+A9D0", "U+A9D1", "U+A9D2", "U+A9D3", "U+A9D4",
    "U+A9D5", "U+A9D6", "U+A9D7", "U+A9D8", "U+A9D9">>,
  <<"U+A9F0", "U+A9F1", "U+A9F2", "U+A9F3", "U+A9F4",
    "U+A9F5", "U+A9F6", "U+A9F7", "U+A9F8", "U+A9F9">>,
  <<"U+AA50", "U+AA51", "U+AA52", "U+AA53", "U+AA54",
    "U+AA55", "U+AA56", "U+AA57", "U+AA58", "U+AA59">>,
  <<"U+ABF0", "U+ABF1", "U+ABF2", "U+ABF3", "U+ABF4",
    "U+ABF5", "U+ABF6", "U+ABF7", "U+ABF8", "U+ABF9">>,
  <<"U+FF10", "U+FF11", "U+FF12", "U+FF13", "U+FF14",
    "U+FF15", "U+FF16", "U+FF17", "U+FF18", "U+FF19">>,
  <<"U+104A0", "U+104A1", "U+104A2", "U+104A3", "U+104A4",
    "U+104A5", "U+104A6", "U+104A7", "U+104A8", "U+104A9">>,
  <<"U+10D30", "U+10D31", "U+10D32", "U+10D33", "U+10D34",
    "U+10D35", "U+10D36", "U+10D37", "U+10D38", "U+10D39">>,
  <<"U+11066", "U+11067", "U+11068", "U+11069", "U+1106A",
    "U+1106B", "U+1106C", "U+1106D", "U+1106E", "U+1106F">>,
  <<"U+110F0", "U+110F1", "U+110F2", "U+110F3", "U+110F4",
    "U+110F5", "U+110F6", "U+110F7", "U+110F8", "U+110F9">>,
  <<"U+11136", "U+11137", "U+11138", "U+11139", "U+1113A",
    "U+1113B", "U+1113C", "U+1113D", "U+1113E", "U+1113F">>,
  <<"U+111D0", "U+111D1", "U+111D2", "U+111D3", "U+111D4",
    "U+111D5", "U+111D6", "U+111D7", "U+111D8", "U+111D9">>,
  <<"U+112F0", "U+112F1", "U+112F2", "U+112F3", "U+112F4",
    "U+112F5", "U+112F6", "U+112F7", "U+112F8", "U+112F9">>,
  <<"U+11450", "U+11451", "U+11452", "U+11453", "U+11454",
    "U+11455", "U+11456", "U+11457", "U+11458", "U+11459">>,
  <<"U+114D0", "U+114D1", "U+114D2", "U+114D3", "U+114D4",
    "U+114D5", "U+114D6", "U+114D7", "U+114D8", "U+114D9">>,
  <<"U+11650", "U+11651", "U+11652", "U+11653", "U+11654",
    "U+11655", "U+11656", "U+11657", "U+11658", "U+11659">>,
  <<"U+116C0", "U+116C1", "U+116C2", "U+116C3", "U+116C4",
    "U+116C5", "U+116C6", "U+116C7", "U+116C8", "U+116C9">>,
  <<"U+11730", "U+11731", "U+11732", "U+11733", "U+11734",
    "U+11735", "U+11736", "U+11737", "U+11738", "U+11739">>,
  <<"U+118E0", "U+118E1", "U+118E2", "U+118E3", "U+118E4",
    "U+118E5", "U+118E6", "U+118E7", "U+118E8", "U+118E9">>,
  <<"U+11950", "U+11951", "U+11952", "U+11953", "U+11954",
    "U+11955", "U+11956", "U+11957", "U+11958", "U+11959">>,
  <<"U+11C50", "U+11C51", "U+11C52", "U+11C53", "U+11C54",
    "U+11C55", "U+11C56", "U+11C57", "U+11C58", "U+11C59">>,
  <<"U+11D50", "U+11D51", "U+11D52", "U+11D53", "U+11D54",
    "U+11D55", "U+11D56", "U+11D57", "U+11D58", "U+11D59">>,
  <<"U+11DA0", "U+11DA1", "U+11DA2", "U+11DA3", "U+11DA4",
    "U+11DA5", "U+11DA6", "U+11DA7", "U+11DA8", "U+11DA9">>,
  <<"U+16A60", "U+16A61", "U+16A62", "U+16A63", "U+16A64",
    "U+16A65", "U+16A66", "U+16A67", "U+16A68", "U+16A69">>,
  <<"U+16AC0", "U+16AC1", "U+16AC2", "U+16AC3", "U+16AC4",
    "U+16AC5", "U+16AC6", "U+16AC7", "U+16AC8", "U+16AC9">>,
  <<"U+16B50", "U+16B51", "U+16B52", "U+16B53", "U+16B54",
    "U+16B55", "U+16B56", "U+16B57", "U+16B58", "U+16B59">>,
  <<"U+1D7CE", "U+1D7CF", "U+1D7D0", "U+1D7D1", "U+1D7D2",
    "U+1D7D3", "U+1D7D4", "U+1D7D5", "U+1D7D6", "U+1D7D7">>,
  <<"U+1D7D8", "U+1D7D9", "U+1D7DA", "U+1D7DB", "U+1D7DC",
    "U+1D7DD", "U+1D7DE", "U+1D7DF", "U+1D7E0", "U+1D7E1">>,
  <<"U+1D7E2", "U+1D7E3", "U+1D7E4", "U+1D7E5", "U+1D7E6",
    "U+1D7E7", "U+1D7E8", "U+1D7E9", "U+1D7EA", "U+1D7EB">>,
  <<"U+1D7EC", "U+1D7ED", "U+1D7EE", "U+1D7EF", "U+1D7F0",
    "U+1D7F1", "U+1D7F2", "U+1D7F3", "U+1D7F4", "U+1D7F5">>,
  <<"U+1D7F6", "U+1D7F7", "U+1D7F8", "U+1D7F9", "U+1D7FA",
    "U+1D7FB", "U+1D7FC", "U+1D7FD", "U+1D7FE", "U+1D7FF">>,
  <<"U+1E140", "U+1E141", "U+1E142", "U+1E143", "U+1E144",
    "U+1E145", "U+1E146", "U+1E147", "U+1E148", "U+1E149">>,
  <<"U+1E2F0", "U+1E2F1", "U+1E2F2", "U+1E2F3", "U+1E2F4",
    "U+1E2F5", "U+1E2F6", "U+1E2F7", "U+1E2F8", "U+1E2F9">>,
  <<"U+1E950", "U+1E951", "U+1E952", "U+1E953", "U+1E954",
    "U+1E955", "U+1E956", "U+1E957", "U+1E958", "U+1E959">>,
  <<"U+1FBF0", "U+1FBF1", "U+1FBF2", "U+1FBF3", "U+1FBF4",
    "U+1FBF5", "U+1FBF6", "U+1FBF7", "U+1FBF8", "U+1FBF9">> >>

\* what \d matches in a str pattern
Digits == {DecimalDigits[r][n] : r \in DOMAIN DecimalDigits, n \in 1..10}

\* what str.strip() and str.split() take for whitespace (str.isspace)
Whitespace == {"\t", "\n", "U+000B", "\f", "\r", "U+001C", "U+001D",
               "U+001E", "U+001F", " ", "U+0085", "U+00A0", "U+1680",
               "U+2000", "U+2001", "U+2002", "U+2003", "U+2004", "U+2005",
               "U+2006", "U+2007", "U+2008", "U+2009", "U+200A", "U+2028",
               "U+2029", "U+202F", "U+205F", "U+3000"}

EmojiChars == {"E1", "E2", "E3", "E4", "E5", "E6", "E7", "E8", "E9",
               "E10", "E11", "E12"}

\* the value int() gives a decimal digit: its place in its row
DigitValues == [c \in Digits |->
                  CHOOSE n \in 0..9 :
                    \E r \in DOMAIN DecimalDigits : DecimalDigits[r][n + 1] = c]

DigitVal(c) == DigitValues[c]

Min(a, b) == IF a < b THEN a ELSE b

\* s[a..b] as a sequence (empty when b < a)
Slice(s, a, b) == IF b < a THEN <<>> ELSE SubSeq(s, a, b)

(***************************************************************************)
(* str.strip(): drop leading and trailing whitespace.                      *)
(***************************************************************************)
RECURSIVE LStrip(_)
LStrip(s) == IF s # <<>> /\ Head(s) \in Whitespace THEN LStrip(Tail(s)) ELSE s

RECURSIVE RStrip(_)
RStrip(s) == IF s # <<>> /\ s[Len(s)] \in Whitespace
             THEN RStrip(SubSeq(s, 1, Len(s) - 1)) ELSE s

\* variant: only the leading whitespace is dropped
StripLeft(s) == LStrip(s)

Strip(s) == RStrip(LStrip(s))

(***************************************************************************)
(* len(text.split()): the number of whitespace-delimited tokens.           *)
(***************************************************************************)
RECURSIVE SplitCount(_, _)
SplitCount(s, inword) ==
  IF s = <<>> THEN 0
  ELSE IF Head(s) \in Whitespace THEN SplitCount(Tail(s), FALSE)
  ELSE (IF inword THEN 0 ELSE 1) + SplitCount(Tail(s), TRUE)

WordCount(text) == SplitCount(text, FALSE)

(***************************************************************************)
(* emoji.emoji_lis(text): the emoji of the text, left to right.            *)
(***************************************************************************)
IsEmoji(c) == c \in EmojiChars

emoji_lis(text) == SelectSeq(text, IsEmoji)

(***************************************************************************)
(* The two regular expressions, re_datematch and re_datenamematch:         *)
(*   date-time prefix  DIGITS / DIGITS / DIGITS , SPACE DIGITS : DIGITS    *)
(*   full record       prefix SPACE - SPACE NAME : SPACE BODY              *)
(* where DIGITS is one or more digits, NAME one or more characters other   *)
(* than a colon, and BODY any characters to the end of the line.  Every    *)
(* DIGITS is followed by a non-digit literal and NAME by a colon, so the   *)
(* greedy match is the only candidate: backtracking cannot succeed where   *)
(* the greedy attempt fails.                                               *)
(***************************************************************************)
\* index just after the maximal run of digits that starts at i
RECURSIVE DigitsEnd(_, _)
DigitsEnd(s, i) == IF i <= Len(s) /\ s[i] \in Digits THEN DigitsEnd(s, i + 1) ELSE i

\* s has the literal lit at index i
HasAt(s, i, lit) == /\ i + Len(lit) - 1 <= Len(s)
                    /\ \A k \in 1..Len(lit) : s[i + k - 1] = lit[k]

\* \d+ at i followed by the literal lit: index after the literal, 0 if no match
DigitsThen(s, i, lit) ==
  IF i = 0 THEN 0
  ELSE LET e == DigitsEnd(s, i)
       IN  IF e > i /\ HasAt(s, e, lit) THEN e + Len(lit) ELSE 0

\* index just after the date-time prefix, 0 if the line has none
DateEnd(s) ==
  LET p1 == DigitsThen(s, 1, <<"/">>)
      p2 == DigitsThen(s, p1, <<"/">>)
      p3 == DigitsThen(s, p2, <<",", " ">>)
      p4 == DigitsThen(s, p3, <<":">>)
      p5 == IF p4 = 0 THEN 0 ELSE DigitsEnd(s, p4)
  IN  IF p4 # 0 /\ p5 > p4 THEN p5 ELSE 0

re_datematch(line) == DateEnd(line) # 0

\* index of the first colon at or after i, 0 if there is none
RECURSIVE ColonAt(_, _)
ColonAt(s, i) == IF i > Len(s) THEN 0
                 ELSE IF s[i] = ":" THEN i ELSE ColonAt(s, i + 1)

\* where $ matches: at the end, or before a line break that ends the line
LineEnd(s) == IF s # <<>> /\ s[Len(s)] = "\n" THEN Len(s) - 1 ELSE Len(s)

\* the match object of re_datenamematch, or [ok |-> FALSE]
re_datenamematch(line) ==
  LET e  == DateEnd(line)
      n0 == e + 3
      c  == IF e = 0 THEN 0 ELSE ColonAt(line, n0)
  IN  IF /\ e # 0
         /\ HasAt(line, e, <<" ", "-", " ">>)
         /\ c > n0
         /\ HasAt(line, c, <<":", " ">>)
         /\ \A k \in (c + 2)..LineEnd(line) : line[k] # "\n"
      THEN [ok |-> TRUE,
            time |-> Slice(line, 1, e - 1),
            name |-> Slice(line, n0, c - 1),
            text |-> Slice(line, c + 2, LineEnd(line))]
      ELSE [ok |-> FALSE]

(***************************************************************************)
(* datetime.datetime.strptime(time, '%m/%d/%y, %H:%M').  Each directive is *)
(* a pattern over one run of digits, where D stands for any decimal digit  *)
(* and a range in brackets for ASCII digits only:                          *)
(*   %m   1[0-2], 0[1-9] or [1-9]                                          *)
(*   %d   3[0-1], [1-2]D, 0[1-9] or [1-9]                                  *)
(*   %y   DD  (00..68 is 2000..2068, 69..99 is 1969..1999)                 *)
(*   %H   2[0-3], [0-1]D or D                                              *)
(*   %M   [0-5]D or D                                                      *)
(* and int() gives the value of the run; the day must exist in the month.  *)
(* Anything else raises ValueError.  A datetime is the number of minutes   *)
(* since 0001-01-01 00:00 of the proleptic Gregorian calendar (day ordinal *)
(* 1), so a difference of two datetimes is a timedelta in minutes.         *)
(***************************************************************************)
RECURSIVE ToNum(_)
ToNum(ds) == IF ds = <<>> THEN 0
             ELSE 10 * ToNum(SubSeq(ds, 1, Len(ds) - 1)) + DigitVal(ds[Len(ds)])

IsLeap(y) == y % 4 = 0 /\ (y % 100 # 0 \/ y % 400 = 0)

DaysInMonth(y, m) ==
  IF m = 2 THEN (IF IsLeap(y) THEN 29 ELSE 28)
  ELSE IF m \in {4, 6, 9, 11} THEN 30 ELSE 31

DaysBeforeYear(y) ==
  LET z == y - 1 IN z * 365 + (z \div 4) - (z \div 100) + (z \div 400)

RECURSIVE DaysBeforeMonth(_, _)
DaysBeforeMonth(y, m) ==
  IF m = 1 THEN 0 ELSE DaysBeforeMonth(y, m - 1) + DaysInMonth(y, m - 1)

Ordinal(y, m, d) == DaysBeforeYear(y) + DaysBeforeMonth(y, m) + d

MinutesPerDay == 1440

AllAscii(ds) == \A k \in 1..Len(ds) : ds[k] \in AsciiDigits

MonthOk(ds) == /\ Len(ds) \in 1..2
               /\ AllAscii(ds)
               /\ ToNum(ds) \in 1..12

DayOk(ds) == /\ Len(ds) \in 1..2
             /\ ds[1] \in AsciiDigits
             /\ Len(ds) = 2 => (ds[2] \in AsciiDigits \/ ds[1] \in {"1", "2"})
             /\ ToNum(ds) \in 1..31

YearOk(ds) == Len(ds) = 2

HourOk(ds) == /\ Len(ds) \in 1..2
              /\ Len(ds) = 2 => /\ ds[1] \in AsciiDigits
                                /\ ds[2] \in AsciiDigits \/ ds[1] \in {"0", "1"}
              /\ ToNum(ds) \in 0..23

MinuteOk(ds) == /\ Len(ds) \in 1..2
                /\ Len(ds) = 2 => ds[1] \in AsciiDigits
                /\ ToNum(ds) \in 0..59

\* the parsed datetime, or [ok |-> FALSE] where strptime raises ValueError
strptime(time) ==
  LET e1 == DigitsEnd(time, 1)
      e2 == DigitsEnd(time, e1 + 1)
      e3 == DigitsEnd(time, e2 + 1)
      e4 == DigitsEnd(time, e3 + 2)
      e5 == DigitsEnd(time, e4 + 1)
      m  == Slice(time, 1, e1 - 1)
      d  == Slice(time, e1 + 1, e2 - 1)
      y  == Slice(time, e2 + 1, e3 - 1)
      H  == Slice(time, e3 + 2, e4 - 1)
      M  == Slice(time, e4 + 1, e5 - 1)
      yr == IF ToNum(y) <= 68 THEN 2000 + ToNum(y) ELSE 1900 + ToNum(y)
  IN  IF /\ MonthOk(m) /\ DayOk(d) /\ YearOk(y) /\ HourOk(H) /\ MinuteOk(M)
         /\ e5 = Len(time) + 1
         /\ ToNum(d) <= DaysInMonth(yr, ToNum(m))
      THEN [ok |-> TRUE,
            value |-> Ordinal(yr, ToNum(m), ToNum(d)) * MinutesPerDay
                        + ToNum(H) * 60 + ToNum(M)]
      ELSE [ok |-> FALSE]

\* message.time.date(), as a day ordinal, and message.time.hour
DateOf(t) == t \div MinutesPerDay

HourOf(t) == (t % MinutesPerDay) \div 60

(***************************************************************************)
(* The lines a transcript is made of, as read from the file (with the      *)
(* line terminator).                                                       *)
(***************************************************************************)
Hdr(date, time, name, body) ==
  date \o <<",", " ">> \o time \o <<" ", "-", " ">> \o name \o <<":", " ">>
       \o body \o <<"\n">>

Jan2 == <<"1", "/", "2", "/", "2", "3">>

Jan3 == <<"0", "1", "/", "0", "3", "/", "2", "3">>

NameA == <<"A">>

NameB == <<"B">>

\* 1/2/23, 9:00 - A: hi
LineA1 == Hdr(Jan2, <<"9", ":", "0", "0">>, NameA, <<"h", "i">>)

\* 01/03/23, 10:00 - A: a b
LineA2 == Hdr(Jan3, <<"1", "0", ":", "0", "0">>, NameA, <<"a", " ", "b">>)

\* 1/2/23, 9:05 - B: yo E1
LineB1 == Hdr(Jan2, <<"9", ":", "0", "5">>, NameB, <<"y", "o", " ", "E1">>)

\* 01/03/23, 09:30 - B: E2E2 ok, with Arabic-Indic digits where strptime
\* takes any decimal digit and a form feed between the two words
LineB2 == Hdr(<<"0", "1", "/", "0", "3", "/", "2", "U+0663">>,
              <<"0", "U+0669", ":", "3", "U+0660">>, NameB,
              <<"E2", "E2", "\f", "o", "k">>)

\* a continuation line, with whitespace around it (a no-break space, an em
\* space and a form feed among it): " E1 so "
LineCont == <<" ", "U+00A0", "E1", "U+2003", "s", "o", "\f", " ", "\n">>

\* a system notification: 1/2/23, 9:00 - System joined
LineSys == Jan2 \o <<",", " ", "9", ":", "0", "0", " ", "-", " ">>
                \o <<"S", "y", "s", " ", "j", "o", "i", "n", "e", "d", "\n">>

\* a record whose date strptime rejects: 13/2/23, 9:00 - A: x
LineBadDate == Hdr(<<"1", "3", "/", "2", "/", "2", "3">>,
                   <<"9", ":", "0", "0">>, NameA, <<"x">>)

Lines == {LineA1, LineA2, LineB1, LineB2, LineCont, LineSys, LineBadDate}

(***************************************************************************)
(* Lines of a transcript of one sender who uses many emoji, for the        *)
(* ranking of the report.                                                  *)
(***************************************************************************)
\* 1/2/23, 9:00 - A: E1E2E3E4E5E6
RankLine1 == Hdr(Jan2, <<"9", ":", "0", "0">>, NameA,
                 <<"E1", "E2", "E3", "E4", "E5", "E6">>)

\* 01/03/23, 9:00 - A: E7E8E9E10E11E12
RankLine2 == Hdr(Jan3, <<"9", ":", "0", "0">>, NameA,
                 <<"E7", "E8", "E9", "E10", "E11", "E12">>)

\* continuation lines
RankLine3 == <<"E12", "E11", "\n">>

RankLine4 == <<"E3", " ", "E12", "E5", "\n">>

RankLine5 == <<"E9", "E9", "E2", "\n">>

RankLines == {RankLine1, RankLine2, RankLine3, RankLine4, RankLine5}

(***************************************************************************)
(* Lines of a transcript with blank lines and with records whose body is   *)
(* blank or begins with blanks.                                            *)
(***************************************************************************)
\* a record without a body: "1/2/23, 9:00 - A: "
BodyLineNone == Hdr(Jan2, <<"9", ":", "0", "0">>, NameA, <<>>)

\* a record whose body is blank: "1/2/23, 9:00 - A:   "
BodyLineBlank == Hdr(Jan2, <<"9", ":", "0", "0">>, NameA, <<" ", " ">>)

\* a record whose body has blanks around it: "01/03/23, 9:00 - A:  x  y "
BodyLineSpaced == Hdr(Jan3, <<"9", ":", "0", "0">>, NameA,
                      <<" ", "x", " ", " ", "y", " ">>)

\* a record whose body is a form feed and a no-break space
BodyLineWide == Hdr(Jan2, <<"9", ":", "0", "0">>, NameA,
                    <<"\f", "U+00A0">>)

\* a record whose month is an Arabic-Indic digit, which %m does not take
BodyLineMonth == Hdr(<<"U+0661", "/", "2", "/", "2", "3">>,
                     <<"9", ":", "0", "0">>, NameA, <<"h", "i">>)

\* an empty line and a line of blanks
BodyLineEmpty == <<"\n">>

BodyLineSpaces == <<" ", "\t", "U+2028", "\n">>

BodyLines == {LineA1, BodyLineNone, BodyLineBlank, BodyLineSpaced,
              BodyLineWide, BodyLineMonth, BodyLineEmpty, BodyLineSpaces}

(***************************************************************************)
(* Data classes.                                                           *)
(***************************************************************************)
\* Message(time, sender_id, text); oid is the identity of the object
Message(time, sender_id, text, oid) ==
  [time |-> time, sender_id |-> sender_id, text |-> text, oid |-> oid]

Chat == [messages |-> <<>>, sender_ids |-> <<>>]

Sender(sender_id, name) == [sender_id |-> sender_id, name |-> name]

Statistic == [message_count |-> 0, message_length |-> 0,
              word_count |-> 0, emoji_count |-> 0]

GeneralStatistic == [message_count |-> 0, message_length |-> 0,
                     word_count |-> 0, emoji_count |-> 0,
                     emoji_stat |-> <<>>, reply_times |-> <<>>]

\* variant: the statistics are keyed by the sender alone
StatisticIndexBySender(sender_id, chat_id) == <<sender_id, 0>>

StatisticIndex(sender_id, chat_id) == <<sender_id, chat_id>>

\* None, where a sender id or a datetime is expected (both are >= 0)
None == -1

NoFault == "none"

\* x in a list
InList(x, list) == \E i \in 1..Len(list) : list[i] = x

(***************************************************************************)
(* State.                                                                  *)
(***************************************************************************)
VARIABLES
  pc,                 \* position of the script
  senders_by_id,      \* list of Sender
  senders_by_name,    \* dict name -> Sender
  chat,               \* the Chat parse_chat is building
  chats,              \* the chats parsed so far
  line,               \* parse_chat: the line last read, stripped
  nread,              \* number of lines read in this run
  open_raw,           \* history: the lines, as read, that make up the open message
  resolved,           \* history: the sender lookups of line 72, in order
  statistics,         \* dict StatisticIndex -> GeneralStatistic
  statistics_by_date, \* dict StatisticIndex -> ordered dict date -> Statistic
  statistics_by_hour, \* dict StatisticIndex -> ordered dict hour -> Statistic
  chat_id,            \* loop variable of the accumulation and report loops
  msg_idx,            \* position of the accumulation loop in chat.messages
  last_sender_id,
  last_message_time,
  sender_pos,         \* position of the report loop in chat.sender_ids
  report,             \* the sender blocks printed so far
  fault               \* the exception that ended the run, if any

parse_vars == <<senders_by_id, senders_by_name, chat, chats, line, nread,
                open_raw, resolved>>

stat_vars == <<statistics, statistics_by_date, statistics_by_hour, msg_idx,
               last_sender_id, last_message_time>>

report_vars == <<sender_pos, report>>

vars == <<pc, parse_vars, stat_vars, report_vars, chat_id, fault>>

Init ==
  /\ pc = "parse"
  /\ senders_by_id = <<>>
  /\ senders_by_name = <<>>
  /\ chat = Chat
  /\ chats = <<>>
  /\ line = <<>>
  /\ nread = 0
  /\ open_raw = <<>>
  /\ resolved = <<>>
  /\ statistics = <<>>
  /\ statistics_by_date = <<>>
  /\ statistics_by_hour = <<>>
  /\ chat_id = 0
  /\ msg_idx = 0
  /\ last_sender_id = None
  /\ last_message_time = None
  /\ sender_pos = 0
  /\ report = <<>>
  /\ fault = NoFault

(***************************************************************************)
(* parse_chat: the body of the loop over the lines of the file.            *)
(***************************************************************************)
\* number of Message objects created so far in the run
RECURSIVE MessagesIn(_)
MessagesIn(cs) == IF cs = <<>> THEN 0
                  ELSE Len(Head(cs).messages) + MessagesIn(Tail(cs))

\* variant: the continuation line is joined with a line break
AppendTextOnNewLine(text, l) == text \o <<"\n">> \o l

\* chat.messages[-1].text += line
AppendText(text, l) == text \o l

\* the registry after the lookup of name (lines 67-70)
RegisterById(by_id, by_name, name) ==
  IF name \in DOMAIN by_name THEN by_id
  ELSE Append(by_id, Sender(Len(by_id), name))

\* variant: the name is registered anew without the lookup of line 67
RegisterByNameAlways(by_id, by_name, name) ==
  (name :> Sender(Len(by_id), name)) @@ by_name

RegisterByName(by_id, by_name, name) ==
  IF name \in DOMAIN by_name THEN by_name
  ELSE (name :> Sender(Len(by_id), name)) @@ by_name

\* variant: only the first sender of a chat is recorded
AddParticipantIfEmpty(sender_ids, sender_id) ==
  IF sender_ids # <<>> THEN sender_ids ELSE Append(sender_ids, sender_id)

\* variant: the sender is appended without the test of line 74
AddParticipantAlways(sender_ids, sender_id) == Append(sender_ids, sender_id)

\* chat.sender_ids after lines 74-75
AddParticipant(sender_ids, sender_id) ==
  IF InList(sender_id, sender_ids) THEN sender_ids
  ELSE Append(sender_ids, sender_id)

\* variant: the continuation line goes to the first message of the chat
FirstMessage(messages) == 1

\* the position of chat.messages[-1]
OpenMessage(messages) == Len(messages)

\* a continuation line (lines 53-55)
ParseContinuation(raw) ==
  /\ chat' = IF Len(chat.messages) > 0
             THEN [chat EXCEPT !.messages[OpenMessage(chat.messages)].text =
                                  AppendText(@, line')]
             ELSE chat
  /\ open_raw' = IF Len(chat.messages) > 0 THEN Append(open_raw, raw)
                 ELSE open_raw
  /\ UNCHANGED <<pc, senders_by_id, senders_by_name, resolved, fault>>

\* variant: a line that is no record is taken for a continuation line
SkipLineAsContinuation == ParseContinuation(line')

\* a line with the date-time prefix that is no record (lines 59-61)
SkipLine ==
  UNCHANGED <<pc, senders_by_id, senders_by_name, chat, open_raw, resolved,
              fault>>

\* an accepted record (lines 63-81)
ParseRecord(raw, match) ==
  LET by_id     == RegisterById(senders_by_id, senders_by_name, match.name)
      by_name   == RegisterByName(senders_by_id, senders_by_name, match.name)
      sender_id == by_name[match.name].sender_id
      ids       == AddParticipant(chat.sender_ids, sender_id)
      time      == strptime(match.time)
      oid       == MessagesIn(chats) + Len(chat.messages)
  IN  /\ senders_by_id' = by_id
      /\ senders_by_name' = by_name
      /\ resolved' = Append(resolved, [file |-> Len(chats), name |-> match.name,
                                       sender_id |-> sender_id])
      /\ IF time.ok
         THEN /\ chat' = [messages |-> Append(chat.messages,
                             Message(time.value, sender_id, match.text, oid)),
                          sender_ids |-> ids]
              /\ open_raw' = <<raw>>
              /\ UNCHANGED <<pc, fault>>
         ELSE /\ chat' = [chat EXCEPT !.sender_ids = ids]
              /\ pc' = "crashed"
              /\ fault' = "ValueError:78"
              /\ UNCHANGED open_raw

\* lines 50-81: the loop body for one line of the file
ParseLine(raw) ==
  /\ pc = "parse"
  /\ nread < MaxLines
  /\ nread' = nread + 1
  /\ line' = Strip(raw)
  /\ IF ~re_datematch(line')
     THEN ParseContinuation(raw)
     ELSE IF ~re_datenamematch(line').ok
          THEN SkipLine
          ELSE ParseRecord(raw, re_datenamematch(line'))
  /\ UNCHANGED <<chats, stat_vars, report_vars, chat_id>>

ReadLine == \E raw \in Lines : ParseLine(raw)

\* return chat (line 83), with another path left in args.files
NextFile ==
  /\ pc = "parse"
  /\ Len(chats) + 1 < MaxFiles
  /\ chats' = Append(chats, chat)
  /\ chat' = Chat
  /\ line' = <<>>
  /\ open_raw' = <<>>
  /\ UNCHANGED <<pc, senders_by_id, senders_by_name, nread, resolved,
                 stat_vars, report_vars, chat_id, fault>>

\* return chat (line 83) for the last path of args.files
LastFile ==
  /\ pc = "parse"
  /\ chats' = Append(chats, chat)
  /\ chat' = Chat
  /\ line' = <<>>
  /\ open_raw' = <<>>
  /\ pc' = "collect"
  /\ UNCHANGED <<senders_by_id, senders_by_name, nread, resolved, stat_vars,
                 report_vars, chat_id, fault>>

(***************************************************************************)
(* Ordered dicts (statistics_by_date[index], statistics_by_hour[index],    *)
(* emoji_stat): a list of entries [key, val] in insertion order.           *)
(***************************************************************************)
DictHas(d, k) == \E i \in 1..Len(d) : d[i].key = k

DictPos(d, k) == CHOOSE i \in 1..Len(d) : d[i].key = k

DictKeys(d) == [i \in 1..Len(d) |-> d[i].key]

\* a dict of the outer level: its entry for k
WithKey(f, k, v) == (k :> v) @@ f

(***************************************************************************)
(* The statistics accumulation loop (lines 112-157).                       *)
(***************************************************************************)
\* variant: the bucket is created anew whether or not it exists
WithBucketReset(d, k) ==
  IF DictHas(d, k) THEN [d EXCEPT ![DictPos(d, k)].val = Statistic]
  ELSE Append(d, [key |-> k, val |-> Statistic])

\* lines 127-128 and 132-133: create the missing bucket
WithBucket(d, k) == IF DictHas(d, k) THEN d
                    ELSE Append(d, [key |-> k, val |-> Statistic])

\* lines 143-145
Track(stat, text) ==
  [stat EXCEPT !.message_count = @ + 1,
               !.message_length = @ + Len(text),
               !.word_count = @ + WordCount(text)]

\* variant: the emoji are entered in emoji_stat but not counted
TrackEmojiNever(stat, found) == stat

\* line 152, once for every emoji found
RECURSIVE TrackEmoji(_, _)
TrackEmoji(stat, found) ==
  IF found = <<>> THEN stat
  ELSE TrackEmoji([stat EXCEPT !.emoji_count = @ + 1], Tail(found))

\* variant: a novel emoji is entered with the count 0
CountEmojiFromZero(emoji_stat, emoji_type) ==
  IF DictHas(emoji_stat, emoji_type)
  THEN [emoji_stat EXCEPT ![DictPos(emoji_stat, emoji_type)].val = @ + 1]
  ELSE Append(emoji_stat, [key |-> emoji_type, val |-> 0])

\* lines 154-157
CountEmoji(emoji_stat, emoji_type) ==
  IF DictHas(emoji_stat, emoji_type)
  THEN [emoji_stat EXCEPT ![DictPos(emoji_stat, emoji_type)].val = @ + 1]
  ELSE Append(emoji_stat, [key |-> emoji_type, val |-> 1])

RECURSIVE CountEmojis(_, _)
CountEmojis(emoji_stat, found) ==
  IF found = <<>> THEN emoji_stat
  ELSE CountEmojis(CountEmoji(emoji_stat, Head(found)), Tail(found))

\* variant: the comparison of line 136 inverted
IsReplySameSender(sender_id, last_id) == sender_id = last_id

\* lines 136-137: does this message append a reply time
IsReply(sender_id, last_id) == sender_id # last_id

\* variant: the reply time as a magnitude
LatencyMagnitude(time, last_time) ==
  IF time < last_time THEN last_time - time ELSE time - last_time

\* line 137: message.time - last_message_time
Latency(time, last_time) == time - last_time

\* one bucket of an ordered dict, after the message is tracked (142-152)
TrackBucket(d, k, text) ==
  [d EXCEPT ![DictPos(d, k)].val = TrackEmoji(Track(@, text), emoji_lis(text))]

\* the total statistic of the index, after the message is tracked (142-157)
TrackTotal(stat, text) ==
  [TrackEmoji(Track(stat, text), emoji_lis(text))
     EXCEPT !.emoji_stat = CountEmojis(@, emoji_lis(text))]

\* lines 112-114: enter the loop body for the chat at chat_id
BeginChat ==
  /\ pc = "collect"
  /\ chat_id < Len(chats)
  /\ IF chats[chat_id + 1].messages = <<>>
     THEN /\ pc' = "crashed"
          /\ fault' = "IndexError:113"
          /\ UNCHANGED <<msg_idx, last_sender_id, last_message_time>>
     ELSE /\ pc' = "fold"
          /\ last_sender_id' = chats[chat_id + 1].messages[1].sender_id
          /\ last_message_time' = None
          /\ msg_idx' = 1
          /\ UNCHANGED fault
  /\ UNCHANGED <<parse_vars, statistics, statistics_by_date,
                 statistics_by_hour, report_vars, chat_id>>

\* lines 116-157: the loop body for one message
FoldMessage ==
  /\ pc = "fold"
  /\ LET messages == chats[chat_id + 1].messages
         message  == messages[msg_idx]
         index    == StatisticIndex(message.sender_id, chat_id)
         date     == DateOf(message.time)
         hour     == HourOf(message.time)
         st0      == IF index \in DOMAIN statistics THEN statistics
                     ELSE WithKey(statistics, index, GeneralStatistic)
         bd0      == IF index \in DOMAIN statistics_by_date
                     THEN statistics_by_date
                     ELSE WithKey(statistics_by_date, index, <<>>)
         bd1      == [bd0 EXCEPT ![index] = WithBucket(@, date)]
         bh0      == IF index \in DOMAIN statistics_by_hour
                     THEN statistics_by_hour
                     ELSE WithKey(statistics_by_hour, index, <<>>)
         bh1      == [bh0 EXCEPT ![index] = WithBucket(@, hour)]
         reply    == IsReply(message.sender_id, last_sender_id)
     IN  IF reply /\ last_message_time = None
         THEN \* message.time - None
              /\ pc' = "crashed"
              /\ fault' = "TypeError:137"
              /\ statistics' = st0
              /\ statistics_by_date' = bd1
              /\ statistics_by_hour' = bh1
              /\ UNCHANGED <<msg_idx, last_sender_id, last_message_time,
                             chat_id>>
         ELSE LET st1 == IF reply
                         THEN [st0 EXCEPT ![index].reply_times =
                                 Append(@, Latency(message.time, last_message_time))]
                         ELSE st0
              IN  /\ statistics' =
                       [st1 EXCEPT ![index] = TrackTotal(@, message.text)]
                  /\ statistics_by_date' =
                       [bd1 EXCEPT ![index] = TrackBucket(@, date, message.text)]
                  /\ statistics_by_hour' =
                       [bh1 EXCEPT ![index] = TrackBucket(@, hour, message.text)]
                  /\ last_sender_id' = message.sender_id
                  /\ last_message_time' = message.time
                  /\ IF msg_idx < Len(messages)
                     THEN /\ msg_idx' = msg_idx + 1
                          /\ UNCHANGED <<pc, chat_id>>
                     ELSE \* the chat is exhausted: back to line 112
                          /\ msg_idx' = 0
                          /\ chat_id' = chat_id + 1
                          /\ pc' = "collect"
                  /\ UNCHANGED fault
  /\ UNCHANGED <<parse_vars, report_vars>>

(***************************************************************************)
(* The console report (lines 161-188).                                     *)
(***************************************************************************)
Reverse(s) == [i \in 1..Len(s) |-> s[Len(s) + 1 - i]]

\* x put behind the entries of an ascending list that are not greater
RECURSIVE InsertAscending(_, _)
InsertAscending(sorted, x) ==
  IF sorted = <<>> THEN <<x>>
  ELSE IF Head(sorted).val <= x.val
       THEN <<Head(sorted)>> \o InsertAscending(Tail(sorted), x)
       ELSE <<x>> \o sorted

\* a stable ascending sort by count
RECURSIVE SortAscending(_)
SortAscending(items) ==
  IF items = <<>> THEN <<>>
  ELSE InsertAscending(SortAscending(SubSeq(items, 1, Len(items) - 1)),
                       items[Len(items)])

\* variant: ascending sort, then reversed (entries of equal count swap)
SortDescendingUnstable(items) == Reverse(SortAscending(items))

\* emojis.sort(key=lambda i:i[1], reverse=True): list.sort reverses the
\* list, sorts it stably in ascending order and reverses the result
SortDescending(items) == Reverse(SortAscending(Reverse(items)))

TopEmojis == 10

\* lines 179-181
RankEmojis(emoji_stat) ==
  LET emojis == SortDescending(emoji_stat)
  IN  SubSeq(emojis, 1, Min(TopEmojis, Len(emojis)))

\* variant: the span from the earliest to the latest date
TotalDaysChronological(keys) ==
  LET dates == {keys[i] : i \in 1..Len(keys)}
  IN  (CHOOSE d \in dates : \A e \in dates : e <= d)
        - (CHOOSE d \in dates : \A e \in dates : d <= e)

\* lines 168-169, for two or more keys: last inserted minus first inserted
TotalDays(keys) == keys[Len(keys)] - keys[1]

\* the fault raised by the block of one sender, NoFault if it completes
BlockFault(index) ==
  IF index \notin DOMAIN statistics THEN "KeyError:165"
  ELSE IF index \notin DOMAIN statistics_by_date THEN "KeyError:166"
  ELSE LET stat == statistics[index]
           keys == DictKeys(statistics_by_date[index])
       IN  IF Len(keys) < 2 THEN "ValueError:168"
           ELSE IF TotalDays(keys) = 0 THEN "ZeroDivisionError:173"
           ELSE IF stat.message_count = 0 THEN "ZeroDivisionError:174"
           ELSE IF stat.word_count = 0 THEN "ZeroDivisionError:177"
           ELSE IF RankEmojis(stat.emoji_stat) # <<>> /\ stat.emoji_count = 0
                THEN "ZeroDivisionError:185"
           ELSE NoFault

\* what the block of one sender prints (lines 171-185); a quotient is the
\* pair of its operands
Block(sender_id, index) ==
  LET stat == statistics[index]
      keys == DictKeys(statistics_by_date[index])
      total_days == TotalDays(keys)
  IN  [chat_id |-> index[2],
       sender_id |-> sender_id,
       name |-> senders_by_id[sender_id + 1].name,
       message_count |-> stat.message_count,
       total_days |-> total_days,
       avg_day |-> <<stat.message_count, total_days>>,
       message_length |-> stat.message_length,
       avg_length |-> <<stat.message_length, stat.message_count>>,
       word_count |-> stat.word_count,
       avg_words |-> <<stat.word_count, stat.message_count>>,
       emoji_count |-> stat.emoji_count,
       avg_emoji |-> <<stat.emoji_count, stat.message_count>>,
       avg_word_length |-> <<stat.message_length, stat.word_count>>,
       emojis |-> [i \in 1..Len(RankEmojis(stat.emoji_stat)) |->
                    [emoji |-> RankEmojis(stat.emoji_stat)[i].key,
                     count |-> RankEmojis(stat.emoji_stat)[i].val,
                     percent |-> <<100 * RankEmojis(stat.emoji_stat)[i].val,
                                   stat.emoji_count>>]]]

\* the accumulation loop is over: start the report at the first chat
BeginReport ==
  /\ pc = "collect"
  /\ chat_id = Len(chats)
  /\ pc' = "report"
  /\ chat_id' = 0
  /\ sender_pos' = 1
  /\ UNCHANGED <<parse_vars, stat_vars, report, fault>>

\* lines 163-185: the block of the sender at sender_pos of the chat at chat_id
ReportSender ==
  /\ pc = "report"
  /\ LET sender_ids == chats[chat_id + 1].sender_ids
         sender_id  == sender_ids[sender_pos]
         index      == StatisticIndex(sender_id, chat_id)
     IN  IF BlockFault(index) # NoFault
         THEN /\ pc' = "crashed"
              /\ fault' = BlockFault(index)
              /\ UNCHANGED <<report, sender_pos, chat_id>>
         ELSE /\ report' = Append(report, Block(sender_id, index))
              /\ UNCHANGED fault
              /\ IF sender_pos < Len(sender_ids)
                 THEN /\ sender_pos' = sender_pos + 1
                      /\ UNCHANGED <<pc, chat_id>>
                 ELSE IF chat_id + 1 < Len(chats)
                 THEN /\ sender_pos' = 1
                      /\ chat_id' = chat_id + 1
                      /\ UNCHANGED pc
                 ELSE \* line 188
                      /\ sender_pos' = 0
                      /\ chat_id' = chat_id + 1
                      /\ pc' = "done"
  /\ UNCHANGED <<parse_vars, stat_vars>>

Next ==
  \/ ReadLine
  \/ NextFile
  \/ LastFile
  \/ BeginChat
  \/ FoldMessage
  \/ BeginReport
  \/ ReportSender

Spec == Init /\ [][Next]_vars

(***************************************************************************)
(* Notions used by the properties.                                         *)
(***************************************************************************)
\* the accumulation loop has run to its end
Accumulated == pc \in {"report", "done"} \/ (pc = "crashed" /\ sender_pos > 0)

\* number of messages of the chat at chat id c folded so far
Folded(c) ==
  IF Accumulated \/ c < chat_id THEN Len(chats[c + 1].messages)
  ELSE IF c = chat_id /\ pc = "fold" THEN msg_idx - 1
  ELSE 0

\* the chats of the run, the one being parsed included
AllChats == IF pc = "parse" \/ (pc = "crashed" /\ fault = "ValueError:78")
            THEN Append(chats, chat) ELSE chats

RECURSIVE SumCounts(_, _)
SumCounts(d, field) ==
  IF d = <<>> THEN 0 ELSE Head(d).val[field] + SumCounts(Tail(d), field)

RECURSIVE Concat(_)
Concat(ss) == IF ss = <<>> THEN <<>> ELSE Head(ss) \o Concat(Tail(ss))

\* positions of the messages of sender s among the first n of a chat
MessagesOf(messages, n, s) == {i \in 1..n : messages[i].sender_id = s}

\* positions among the first n messages where sender s follows another sender
SwitchPoints(messages, n, s) ==
  {i \in 2..n : messages[i].sender_id = s /\ messages[i - 1].sender_id # s}

(***************************************************************************)
(* C1: after the accumulation pass, for every StatKey the total            *)
(* message_count equals the sum of message_count over the key's day        *)
(* buckets and over its hour buckets; every message of the chat is counted *)
(* in the day bucket of its date and the hour bucket of its hour, under    *)
(* its own sender's key.                                                   *)
(***************************************************************************)
C1_MessageCountsAgree ==
  Accumulated =>
    \A index \in DOMAIN statistics :
      LET messages == chats[index[2] + 1].messages
          mine     == MessagesOf(messages, Len(messages), index[1])
          by_date  == statistics_by_date[index]
          by_hour  == statistics_by_hour[index]
      IN  /\ statistics[index].message_count = Cardinality(mine)
          /\ statistics[index].message_count = SumCounts(by_date, "message_count")
          /\ statistics[index].message_count = SumCounts(by_hour, "message_count")
          /\ \A k \in 1..Len(by_date) :
               by_date[k].val.message_count =
                 Cardinality({i \in mine : DateOf(messages[i].time) = by_date[k].key})
          /\ \A k \in 1..Len(by_hour) :
               by_hour[k].val.message_count =
                 Cardinality({i \in mine : HourOf(messages[i].time) = by_hour[k].key})

\* a sender with three messages on two days has been accumulated
C1_Witness ==
  /\ Accumulated
  /\ \E index \in DOMAIN statistics :
       /\ statistics[index].message_count >= 3
       /\ Len(statistics_by_date[index]) >= 2
       /\ Len(statistics_by_hour[index]) >= 2

(***************************************************************************)
(* C2: for every chat and every sender in it, the number of reply times    *)
(* recorded equals the number of positions of the chat where that sender   *)
(* follows another sender; the first message of a chat, of a second chat   *)
(* too, appends none and never computes one.                               *)
(***************************************************************************)
C2_ReplyTimesCountSwitches ==
  /\ fault # "TypeError:137"
  /\ \A c \in 0..(Len(chats) - 1) :
       \A p \in 1..Len(chats[c + 1].sender_ids) :
         LET s     == chats[c + 1].sender_ids[p]
             index == StatisticIndex(s, c)
             n     == Folded(c)
         IN  IF index \in DOMAIN statistics
             THEN Len(statistics[index].reply_times) =
                    Cardinality(SwitchPoints(chats[c + 1].messages, n, s))
             ELSE MessagesOf(chats[c + 1].messages, n, s) = {}

\* two chats are accumulated, and in the second one a sender has answered
C2_Witness ==
  /\ Accumulated
  /\ Len(chats) = 2
  /\ \E index \in DOMAIN statistics :
       index[2] = 1 /\ Len(statistics[index].reply_times) >= 1
  /\ \E index \in DOMAIN statistics :
       index[2] = 0 /\ Len(statistics[index].reply_times) >= 1

(***************************************************************************)
(* C3: over all transcripts of a run the sender id is a function of the    *)
(* name alone: two lookups resolve to the same id exactly if the names     *)
(* are the same, and the k-th novel name gets the id k-1.                  *)
(***************************************************************************)
\* the names looked up before position i
NamesBefore(i) == {resolved[j].name : j \in 1..(i - 1)}

C3_SenderIdIsFunctionOfName ==
  /\ \A i, j \in 1..Len(resolved) :
       (resolved[i].name = resolved[j].name)
         <=> (resolved[i].sender_id = resolved[j].sender_id)
  /\ \A i \in 1..Len(resolved) :
       resolved[i].name \notin NamesBefore(i)
         => resolved[i].sender_id = Cardinality(NamesBefore(i))
  /\ \A k \in 1..Len(senders_by_id) :
       /\ senders_by_id[k].sender_id = k - 1
       /\ senders_by_id[k].name \in DOMAIN senders_by_name
       /\ senders_by_name[senders_by_id[k].name] = senders_by_id[k]
  /\ Cardinality(DOMAIN senders_by_name) = Len(senders_by_id)

\* the second transcript meets the names of the first in the other order
C3_Witness ==
  /\ Len(resolved) = 4
  /\ resolved[1].file = 0 /\ resolved[2].file = 0
  /\ resolved[3].file = 1 /\ resolved[4].file = 1
  /\ resolved[1].name # resolved[2].name
  /\ resolved[3].name = resolved[2].name
  /\ resolved[4].name = resolved[1].name
  /\ resolved[3].sender_id = 1 /\ resolved[4].sender_id = 0

(***************************************************************************)
(* C4: whatever prefix of the lines parse_chat has consumed, every message *)
(* of a chat has a sender_id that is in the sender_ids of the same chat,   *)
(* and every Message object is in exactly one place of exactly one chat.   *)
(***************************************************************************)
\* the places <<chat, position>> of all messages
Places == {cp \in (1..Len(AllChats)) \X (1..MaxLines + 1) :
             cp[2] <= Len(AllChats[cp[1]].messages)}

C4_MessageSenderIsParticipant ==
  /\ \A cp \in Places :
       InList(AllChats[cp[1]].messages[cp[2]].sender_id,
              AllChats[cp[1]].sender_ids)
  /\ \A cp, dq \in Places :
       AllChats[cp[1]].messages[cp[2]].oid = AllChats[dq[1]].messages[dq[2]].oid
         => cp = dq

\* the chat being parsed has messages of two senders, after an earlier chat
C4_Witness ==
  /\ pc = "parse"
  /\ Len(chats) = 1 /\ Len(chats[1].messages) >= 1
  /\ Len(chat.messages) >= 2
  /\ Len(chat.sender_ids) = 2

(***************************************************************************)
(* C5: the text of the open message is the body of its header line         *)
(* followed by the continuation lines read since, each stripped of the     *)
(* whitespace around it, with nothing put between them.                    *)
(***************************************************************************)
C5_TextIsConcatenation ==
  (pc = "parse" /\ chat.messages # <<>>) =>
    /\ open_raw # <<>>
    /\ re_datenamematch(Strip(open_raw[1])).ok
    /\ \A k \in 2..Len(open_raw) : ~re_datematch(Strip(open_raw[k]))
    /\ chat.messages[Len(chat.messages)].text =
         re_datenamematch(Strip(open_raw[1])).text
           \o Concat([k \in 1..(Len(open_raw) - 1) |-> Strip(open_raw[k + 1])])

\* a header line and two continuation lines have been read
C5_Witness ==
  /\ pc = "parse"
  /\ chat.messages # <<>>
  /\ Len(open_raw) >= 3
  /\ Len(chat.messages[Len(chat.messages)].text) >
       Len(re_datenamematch(Strip(open_raw[1])).text)

(***************************************************************************)
(* The run on the transcripts of RankLines.                                *)
(***************************************************************************)
ReadRankLine == \E raw \in RankLines : ParseLine(raw)

NextRank ==
  \/ ReadRankLine
  \/ NextFile
  \/ LastFile
  \/ BeginChat
  \/ FoldMessage
  \/ BeginReport
  \/ ReportSender

SpecRank == Init /\ [][NextRank]_vars

(***************************************************************************)
(* C6: a line with the date-time prefix that is no full record is dropped  *)
(* without any change of state: the messages, their texts, the             *)
(* participants and the registry stay as they are and the open message     *)
(* stays open, so that a continuation line read next is appended to the    *)
(* message that was open before the dropped line.                          *)
(***************************************************************************)
Malformed(l) == re_datematch(l) /\ ~re_datenamematch(l).ok

C6_MalformedLineDiscarded ==
  [][/\ (nread' = nread + 1 /\ Malformed(line'))
          => /\ chat' = chat
             /\ chats' = chats
             /\ senders_by_id' = senders_by_id
             /\ senders_by_name' = senders_by_name
             /\ pc' = pc
             /\ fault' = fault
     /\ (nread' = nread + 1 /\ Malformed(line) /\ ~re_datematch(line')
           /\ chat.messages # <<>>)
          => /\ Len(chat'.messages) = Len(chat.messages)
             /\ chat'.messages[Len(chat.messages)].text =
                  chat.messages[Len(chat.messages)].text \o line'
    ]_vars

\* a line that is no record has been read while a message with a
\* continuation line was open
C6_Witness ==
  /\ pc = "parse"
  /\ Malformed(line)
  /\ Len(open_raw) >= 2
  /\ chat.messages # <<>>

(***************************************************************************)
(* C7: a transcript without an accepted record gives a chat of zero        *)
(* messages, and the run does not fail on it: the accumulation takes the   *)
(* empty chat as legal.                                                    *)
(***************************************************************************)
C7_EmptyChatIsLegal ==
  \A c \in 1..Len(chats) :
    chats[c].messages = <<>> =>
      ~(pc = "crashed" /\ fault = "IndexError:113" /\ chat_id = c - 1)

(***************************************************************************)
(* C8: when all messages of a participant fall on one date (one day        *)
(* bucket, a span of zero days) the report does not fail on the block of   *)
(* that participant.                                                       *)
(***************************************************************************)
C8_SingleDayBlockCompletes ==
  (pc = "crashed" /\ sender_pos > 0) =>
    LET index == StatisticIndex(chats[chat_id + 1].sender_ids[sender_pos],
                                chat_id)
    IN  Len(statistics_by_date[index]) # 1

(***************************************************************************)
(* C9: the ranking printed for a sender holds at most 10 entries of the    *)
(* sender's emoji_stat, those of the highest counts, in descending order   *)
(* of count; entries of equal count stand in the order of their first      *)
(* insertion, and none of them is cut off in favour of one inserted later. *)
(***************************************************************************)
RankingOf(ranked, table) ==
  LET pos(i) == DictPos(table, ranked[i].emoji)
      shown  == {pos(i) : i \in 1..Len(ranked)}
  IN  /\ Len(ranked) = Min(10, Len(table))
      /\ \A i \in 1..Len(ranked) :
           /\ DictHas(table, ranked[i].emoji)
           /\ ranked[i].count = table[pos(i)].val
      /\ \A i, j \in 1..Len(ranked) :
           i < j => \/ ranked[i].count > ranked[j].count
                    \/ ranked[i].count = ranked[j].count /\ pos(i) < pos(j)
      /\ \A q \in (1..Len(table)) \ shown :
           \A i \in 1..Len(ranked) :
             \/ ranked[i].count > table[q].val
             \/ ranked[i].count = table[q].val /\ pos(i) < q

TableOf(block) ==
  statistics[StatisticIndex(block.sender_id, block.chat_id)].emoji_stat

C9_EmojiRanking ==
  \A k \in 1..Len(report) : RankingOf(report[k].emojis, TableOf(report[k]))

\* a block is printed for a table of more than 10 emoji, where an entry that
\* is cut off has the count of the last one shown, and the ranking is not
\* the insertion order
C9_Witness ==
  \E k \in 1..Len(report) :
    LET ranked == report[k].emojis
        table  == TableOf(report[k])
    IN  /\ Len(table) > 10
        /\ Len(ranked) = 10
        /\ \E q \in 1..Len(table) :
             /\ \A i \in 1..10 : ranked[i].emoji # table[q].key
             /\ table[q].val = ranked[10].count
        /\ \E i \in 1..9 :
             DictPos(table, ranked[i].emoji) > DictPos(table, ranked[i + 1].emoji)
        /\ \E i \in 1..9 :
             /\ ranked[i].count = ranked[i + 1].count
             /\ ranked[i].count > ranked[10].count

(***************************************************************************)
(* C10: for a sender without emoji (emoji_count 0, empty emoji_stat) the   *)
(* report prints no ranking entry, the average emoji per message is 0, and *)
(* no division by emoji_count is evaluated.                                *)
(***************************************************************************)
C10_NoEmojiNoDivision ==
  /\ fault # "ZeroDivisionError:185"
  /\ \A k \in 1..Len(report) :
       report[k].emoji_count = 0 =>
         /\ TableOf(report[k]) = <<>>
         /\ report[k].emojis = <<>>
         /\ report[k].avg_emoji[1] = 0
         /\ report[k].avg_emoji[2] > 0

\* the block of a sender without emoji has been printed
C10_Witness ==
  \E k \in 1..Len(report) :
    report[k].emoji_count = 0 /\ report[k].message_count >= 2

(***************************************************************************)
(* C11: every reply time recorded is the time of the message minus the     *)
(* time of the message just before it in the chat, in source order (the    *)
(* last sender and time are overwritten after every message); the time of  *)
(* the message before is never undefined where a reply time is computed,   *)
(* and a reply time is negative where the source times go backwards.       *)
(***************************************************************************)
\* the differences to the preceding message at the switch points of sender
\* s among the first n messages, in order
RECURSIVE GapsAtSwitches(_, _, _)
GapsAtSwitches(messages, n, s) ==
  IF n < 2 THEN <<>>
  ELSE GapsAtSwitches(messages, n - 1, s)
         \o (IF n \in SwitchPoints(messages, n, s)
             THEN <<messages[n].time - messages[n - 1].time>> ELSE <<>>)

C11_LatencyIsGapToPrevious ==
  /\ fault # "TypeError:137"
  /\ \A index \in DOMAIN statistics :
       statistics[index].reply_times =
         GapsAtSwitches(chats[index[2] + 1].messages, Folded(index[2]), index[1])

\* a sender answers two messages of another sender, the second of which is
\* later than the answer: the reply time is negative and is not the gap to
\* the first
C11_Witness ==
  /\ Accumulated
  /\ \E index \in DOMAIN statistics :
       LET messages == chats[index[2] + 1].messages
       IN  /\ Len(messages) >= 3
           /\ messages[1].sender_id = messages[2].sender_id
           /\ messages[3].sender_id = index[1]
           /\ messages[3].sender_id # messages[2].sender_id
           /\ messages[1].time # messages[2].time
           /\ messages[3].time < messages[2].time
           /\ statistics[index].reply_times # <<>>
           /\ statistics[index].reply_times[1] < 0

(***************************************************************************)
(* C12: folding one message of sender s in chat c changes three Statistic  *)
(* records only: the total of (s, c), the day bucket of (s, c) for the     *)
(* date of the message and the hour bucket of (s, c) for its hour, each by *)
(* one message, the length of the text and the number of its tokens.       *)
(* Every bucket of every other key, and every other bucket of (s, c), is   *)
(* left as it is: the same sender in another chat is not touched.          *)
(***************************************************************************)
\* the total of a key, and a bucket of a key, zero where there is none yet
TotalAt(totals, index) ==
  IF index \in DOMAIN totals THEN totals[index] ELSE GeneralStatistic

BucketAt(buckets, index, k) ==
  IF index \in DOMAIN buckets /\ DictHas(buckets[index], k)
  THEN buckets[index][DictPos(buckets[index], k)].val
  ELSE Statistic

KeysAt(buckets, index) ==
  IF index \in DOMAIN buckets
  THEN {buckets[index][i].key : i \in 1..Len(buckets[index])} ELSE {}

\* the record after is the record before plus one message of the text
GrownBy(after, before, text) ==
  /\ after.message_count = before.message_count + 1
  /\ after.message_length = before.message_length + Len(text)
  /\ after.word_count = before.word_count + WordCount(text)

\* the buckets of a key other than bucket k are the same before and after
OthersKept(after, before, index, k) ==
  /\ KeysAt(after, index) = KeysAt(before, index) \cup {k}
  /\ \A j \in KeysAt(after, index) \ {k} :
       BucketAt(after, index, j) = BucketAt(before, index, j)

C12_FoldChangesThreeRecords ==
  [][(pc = "fold" /\ pc' # "crashed") =>
       LET message == chats[chat_id + 1].messages[msg_idx]
           own     == <<message.sender_id, chat_id>>
           date    == DateOf(message.time)
           hour    == HourOf(message.time)
       IN  /\ GrownBy(TotalAt(statistics', own), TotalAt(statistics, own),
                      message.text)
           /\ GrownBy(BucketAt(statistics_by_date', own, date),
                      BucketAt(statistics_by_date, own, date), message.text)
           /\ GrownBy(BucketAt(statistics_by_hour', own, hour),
                      BucketAt(statistics_by_hour, own, hour), message.text)
           /\ OthersKept(statistics_by_date', statistics_by_date, own, date)
           /\ OthersKept(statistics_by_hour', statistics_by_hour, own, hour)
           /\ DOMAIN statistics' = DOMAIN statistics \cup {own}
           /\ DOMAIN statistics_by_date' = DOMAIN statistics_by_date \cup {own}
           /\ DOMAIN statistics_by_hour' = DOMAIN statistics_by_hour \cup {own}
           /\ \A index \in DOMAIN statistics' \ {own} :
                /\ statistics'[index] = statistics[index]
                /\ statistics_by_date'[index] = statistics_by_date[index]
                /\ statistics_by_hour'[index] = statistics_by_hour[index]
    ]_vars

\* a message of a sender has been folded in the second chat while the same
\* sender has statistics from the first chat
C12_Witness ==
  /\ chat_id = 1
  /\ pc = "fold"
  /\ msg_idx >= 2
  /\ \E s \in 0..1 :
       /\ <<s, 0>> \in DOMAIN statistics
       /\ <<s, 1>> \in DOMAIN statistics
       /\ statistics[<<s, 0>>].message_count >= 1
       /\ statistics[<<s, 1>>].message_count >= 1

(***************************************************************************)
(* C13: a line read by the parser changes at most the text of the last     *)
(* message of the chat being parsed; the text, time and sender_id of every *)
(* earlier message of that chat and all messages of the chats parsed       *)
(* before stay as they are, under every later line.                        *)
(***************************************************************************)
C13_OnlyOpenMessageGrows ==
  [][/\ \A c \in 1..Len(chats) : Len(chats') >= c /\ chats'[c] = chats[c]
     /\ Len(chats') > Len(chats) => chats' = Append(chats, chat)
     /\ nread' = nread + 1 =>
          /\ Len(chat'.messages) >= Len(chat.messages)
          /\ \A i \in 1..Len(chat.messages) :
               /\ chat'.messages[i].time = chat.messages[i].time
               /\ chat'.messages[i].sender_id = chat.messages[i].sender_id
               /\ chat'.messages[i].text # chat.messages[i].text =>
                    /\ i = Len(chat.messages)
                    /\ Len(chat'.messages) = Len(chat.messages)
                    /\ ~re_datematch(line')
    ]_vars

\* a continuation line has been appended to the second message of the second
\* chat of the run
C13_Witness ==
  /\ pc = "parse"
  /\ Len(chats) = 1
  /\ Len(chats[1].messages) >= 1
  /\ Len(chat.messages) = 2
  /\ Len(open_raw) = 2
  /\ ~re_datematch(line)
  /\ line # <<>>

(***************************************************************************)
(* C14: after the accumulation every StatKey (sender_id, chat_id) of       *)
(* statistics, statistics_by_date and statistics_by_hour names a sender    *)
(* that is in the sender_ids of the chat at position chat_id.              *)
(***************************************************************************)
C14_StatKeySenderIsParticipant ==
  Accumulated =>
    \A index \in DOMAIN statistics \cup DOMAIN statistics_by_date
                   \cup DOMAIN statistics_by_hour :
      /\ index[2] \in 0..(Len(chats) - 1)
      /\ InList(index[1], chats[index[2] + 1].sender_ids)

\* two chats are accumulated, one of them with two participants, and a
\* sender of the second chat has no part in the first
C14_Witness ==
  /\ Accumulated
  /\ Len(chats) = 2
  /\ Cardinality(DOMAIN statistics) = 3
  /\ Len(chats[1].sender_ids) = 1
  /\ Len(chats[2].sender_ids) = 2
  /\ DOMAIN statistics_by_date = DOMAIN statistics
  /\ DOMAIN statistics_by_hour = DOMAIN statistics

(***************************************************************************)
(* C15: whatever prefix of the lines parse_chat has consumed, sender_ids   *)
(* of the chat holds no sender twice and lists the senders in the order of *)
(* their first accepted message in that chat, which is not the order of    *)
(* the ids where an earlier transcript registered the senders.             *)
(***************************************************************************)
\* the senders of the messages, each once, in the order of first appearance
RECURSIVE FirstAppearances(_)
FirstAppearances(messages) ==
  IF messages = <<>> THEN <<>>
  ELSE LET before == FirstAppearances(SubSeq(messages, 1, Len(messages) - 1))
           s      == messages[Len(messages)].sender_id
       IN  IF InList(s, before) THEN before ELSE Append(before, s)

\* the chats parse_chat has returned, and the one it is building
ParsedChats == IF pc = "parse" THEN Append(chats, chat) ELSE chats

C15_ParticipantsInFirstMessageOrder ==
  \A c \in 1..Len(ParsedChats) :
    /\ ParsedChats[c].sender_ids = FirstAppearances(ParsedChats[c].messages)
    /\ \A i, j \in 1..Len(ParsedChats[c].sender_ids) :
         ParsedChats[c].sender_ids[i] = ParsedChats[c].sender_ids[j] => i = j

\* the second chat, of three messages, lists sender 1 before sender 0
C15_Witness ==
  /\ pc = "parse"
  /\ Len(chats) = 1
  /\ chat.sender_ids = <<1, 0>>
  /\ Len(chat.messages) = 3

(***************************************************************************)
(* C16: total_days of a participant is the date key inserted last minus    *)
(* the date key inserted first in the day buckets of the StatKey, not the  *)
(* latest date minus the earliest: where the days of the sender's messages *)
(* do not come in the order of time it differs from the span, and it can   *)
(* be negative.                                                            *)
(***************************************************************************)
\* the dates of the messages of sender s, each once, in the order in which
\* the messages come in the chat
RECURSIVE DatesInSourceOrder(_, _)
DatesInSourceOrder(messages, s) ==
  IF messages = <<>> THEN <<>>
  ELSE LET before == DatesInSourceOrder(SubSeq(messages, 1, Len(messages) - 1), s)
           last   == messages[Len(messages)]
       IN  IF last.sender_id = s /\ ~InList(DateOf(last.time), before)
           THEN Append(before, DateOf(last.time)) ELSE before

\* latest date minus earliest date of the messages of sender s
ChronologicalSpan(messages, s) ==
  LET dates == {DateOf(messages[i].time) :
                  i \in MessagesOf(messages, Len(messages), s)}
  IN  (CHOOSE d \in dates : \A e \in dates : e <= d)
        - (CHOOSE d \in dates : \A e \in dates : d <= e)

C16_TotalDaysByInsertionOrder ==
  \A k \in 1..Len(report) :
    LET dates == DatesInSourceOrder(chats[report[k].chat_id + 1].messages,
                                    report[k].sender_id)
    IN  /\ Len(dates) >= 2
        /\ report[k].total_days = dates[Len(dates)] - dates[1]

\* a block is printed for a sender whose later day comes first in the
\* transcript: total_days is negative and is not the span of the days
C16_Witness ==
  \E k \in 1..Len(report) :
    /\ report[k].total_days < 0
    /\ report[k].total_days #
         ChronologicalSpan(chats[report[k].chat_id + 1].messages,
                           report[k].sender_id)

(***************************************************************************)
(* C17: in every Statistic record (total, per day, per hour) the four      *)
(* counters message_count, message_length, word_count and emoji_count are  *)
(* integers not below zero at every step of the accumulation, and none of  *)
(* them decreases from one step to the next.                               *)
(***************************************************************************)
Counters == {"message_count", "message_length", "word_count", "emoji_count"}

CountersNatural(stat) == \A f \in Counters : stat[f] \in Nat

NotDecreased(after, before) == \A f \in Counters : after[f] >= before[f]

AllCountersNatural ==
  /\ \A index \in DOMAIN statistics : CountersNatural(statistics[index])
  /\ \A index \in DOMAIN statistics_by_date :
       \A i \in 1..Len(statistics_by_date[index]) :
         CountersNatural(statistics_by_date[index][i].val)
  /\ \A index \in DOMAIN statistics_by_hour :
       \A i \in 1..Len(statistics_by_hour[index]) :
         CountersNatural(statistics_by_hour[index][i].val)

NoCounterDecreases ==
  /\ \A index \in DOMAIN statistics :
       /\ index \in DOMAIN statistics'
       /\ NotDecreased(statistics'[index], statistics[index])
  /\ \A index \in DOMAIN statistics_by_date :
       \A k \in KeysAt(statistics_by_date, index) :
         /\ k \in KeysAt(statistics_by_date', index)
         /\ NotDecreased(BucketAt(statistics_by_date', index, k),
                         BucketAt(statistics_by_date, index, k))
  /\ \A index \in DOMAIN statistics_by_hour :
       \A k \in KeysAt(statistics_by_hour, index) :
         /\ k \in KeysAt(statistics_by_hour', index)
         /\ NotDecreased(BucketAt(statistics_by_hour', index, k),
                         BucketAt(statistics_by_hour, index, k))

C17_CountersNeverDecrease ==
  []AllCountersNatural /\ [][NoCounterDecreases]_vars

\* a day bucket with emoji has taken a second message while another day
\* bucket of the same key exists
C17_Witness ==
  /\ pc = "fold"
  /\ \E index \in DOMAIN statistics_by_date :
       /\ Len(statistics_by_date[index]) >= 2
       /\ \E i \in 1..Len(statistics_by_date[index]) :
            /\ statistics_by_date[index][i].val.message_count >= 2
            /\ statistics_by_date[index][i].val.emoji_count >= 1

(***************************************************************************)
(* The run on the transcripts of BodyLines.                                *)
(***************************************************************************)
ReadBodyLine == \E raw \in BodyLines : ParseLine(raw)

NextBody ==
  \/ ReadBodyLine
  \/ NextFile
  \/ LastFile
  \/ BeginChat
  \/ FoldMessage
  \/ BeginReport
  \/ ReportSender

SpecBody == Init /\ [][NextBody]_vars

(***************************************************************************)
(* C18: every message the parser makes has a text that is not empty and    *)
(* holds at least one token (a line is stripped before it is matched, so   *)
(* the body of a record is never empty or blank, and a continuation only   *)
(* appends); every Statistic record that exists was made by a message, so  *)
(* its message_count is at least 1 and its word_count at least its         *)
(* message_count, and the report never divides by a message_count or a     *)
(* word_count of zero.                                                     *)
(***************************************************************************)
HasMessage(stat) ==
  stat.message_count >= 1 /\ stat.word_count >= stat.message_count

C18_RecordsHaveMessagesAndWords ==
  /\ \A cp \in Places :
       LET text == AllChats[cp[1]].messages[cp[2]].text
       IN  /\ text # <<>>
           /\ \E i \in 1..Len(text) : text[i] \notin Whitespace
           /\ WordCount(text) >= 1
  /\ \A index \in DOMAIN statistics :
       fault # "TypeError:137" => HasMessage(statistics[index])
  /\ \A index \in DOMAIN statistics_by_date :
       \A i \in 1..Len(statistics_by_date[index]) :
         fault # "TypeError:137" => HasMessage(statistics_by_date[index][i].val)
  /\ \A index \in DOMAIN statistics_by_hour :
       \A i \in 1..Len(statistics_by_hour[index]) :
         fault # "TypeError:137" => HasMessage(statistics_by_hour[index][i].val)
  /\ fault \notin {"ZeroDivisionError:174", "ZeroDivisionError:177"}

\* a block is printed for a chat with a message whose body begins with
\* blanks, from a transcript with lines that made no message
C18_Witness ==
  /\ report # <<>>
  /\ nread > MessagesIn(chats)
  /\ \E cp \in Places :
       LET text == AllChats[cp[1]].messages[cp[2]].text
       IN  text[1] \in Whitespace /\ WordCount(text) = 2

(***************************************************************************)
(* C19: after the accumulation, for every StatKey the counts of the        *)
(* emoji_stat table add up to the total emoji_count, which is the sum of   *)
(* emoji_count over the day buckets of the key and over its hour buckets;  *)
(* every entry of emoji_stat has a count of at least 1.                    *)
(***************************************************************************)
RECURSIVE SumVals(_)
SumVals(d) == IF d = <<>> THEN 0 ELSE Head(d).val + SumVals(Tail(d))

C19_EmojiCountsAgree ==
  Accumulated =>
    \A index \in DOMAIN statistics :
      /\ SumVals(statistics[index].emoji_stat) = statistics[index].emoji_count
      /\ SumCounts(statistics_by_date[index], "emoji_count")
           = statistics[index].emoji_count
      /\ SumCounts(statistics_by_hour[index], "emoji_count")
           = statistics[index].emoji_count
      /\ \A i \in 1..Len(statistics[index].emoji_stat) :
           statistics[index].emoji_stat[i].val >= 1

\* a sender has used two emoji, one of them more than once, on two days
C19_Witness ==
  /\ Accumulated
  /\ \E index \in DOMAIN statistics :
       /\ Len(statistics[index].emoji_stat) = 2
       /\ statistics[index].emoji_count >= 3
       /\ Len(statistics_by_date[index]) = 2
       /\ \A i \in 1..2 : statistics_by_date[index][i].val.emoji_count >= 1

(***************************************************************************)
(* C20: after the accumulation of chats that each hold a message, for      *)
(* every chat c and every sender s of its sender_ids the key (s, c) is in  *)
(* statistics, statistics_by_date and statistics_by_hour, with a day       *)
(* bucket and an hour bucket at least (hours within 0..23), so that no     *)
(* lookup of the report misses a key.                                      *)
(***************************************************************************)
C20_ParticipantsHaveStatistics ==
  /\ fault \notin {"KeyError:165", "KeyError:166"}
  /\ (Accumulated /\ \A c \in 1..Len(chats) : chats[c].messages # <<>>) =>
       \A c \in 0..(Len(chats) - 1) :
         \A p \in 1..Len(chats[c + 1].sender_ids) :
           LET own == <<chats[c + 1].sender_ids[p], c>>
           IN  /\ own \in DOMAIN statistics
               /\ own \in DOMAIN statistics_by_date
               /\ own \in DOMAIN statistics_by_hour
               /\ Len(statistics_by_date[own]) >= 1
               /\ Len(statistics_by_hour[own]) >= 1
               /\ \A i \in 1..Len(statistics_by_hour[own]) :
                    statistics_by_hour[own][i].key \in 0..23

\* the report has run to its end over two chats, a block for each of them
C20_Witness ==
  /\ pc = "done"
  /\ Len(chats) = 2
  /\ Len(report) >= 2
  /\ \E c \in 1..2 : Len(chats[c].sender_ids) = 1

=============================================================================
